---- MODULE Spec2Model ----
(***************************************************************************)
(* A model of grvt_helpers.py: the RateLimiter class, the take-profit /    *)
(* stop-loss (TPSL) helpers round_to_tick_size, validate_tpsl_prices and   *)
(* create_tpsl_params, and the module's effective (last-defined)           *)
(* emergency_cancel_all and emergency_close_all.                           *)
(*                                                                         *)
(* Time.  datetime.now() is modelled by the variable clock, counted in     *)
(* ticks of 0.1 s, the margin wait_if_needed adds to its sleep (line 585). *)
(* time_window is counted in the same ticks.  The clock never goes back.   *)
(*                                                                         *)
(* Prices.  A price, and a tick size, is a whole number of quarters: the   *)
(* number q stands for the float q / 4.  Quarters of this size are exact   *)
(* floats, and so are their products and the ties of their quotients, so   *)
(* the integer arithmetic below is the float arithmetic of the code.       *)
(***************************************************************************)
EXTENDS Integers, Sequences, FiniteSets, TLC

VARIABLES
    max_requests,   \* RateLimiter.max_requests
    time_window,    \* RateLimiter.time_window, in ticks
    requests,       \* RateLimiter.requests: the stored timestamps
    clock,          \* what datetime.now() returns
    recorded,       \* history: every timestamp record_request() ever appended
    ret,            \* what the caller's last can_make_request() returned
    slept,          \* the duration the last wait_if_needed() passed to time.sleep (0: no sleep)
    returned,       \* the RateLimiter method that returned in the last step
    pc,             \* the caller: "idle", or "cleared" after wait_if_needed() returned
    side,               \* TPSL request: the side of the closing order
    last_price,         \* TPSL request: the reference price
    take_profit_price,  \* TPSL request: optional price
    stop_loss_price,    \* TPSL request: optional price
    tick_size,          \* TPSL request: the tick size
    trigger_by,         \* the trigger_by given to create_tpsl_params
    close_position,     \* the close_position given to create_tpsl_params
    called,             \* the TPSL functions applied so far
    validation,         \* what validate_tpsl_prices returned
    params,             \* how create_tpsl_params ended
    rounded,            \* the price given to round_to_tick_size and how the call ended
    rerounded,          \* how round_to_tick_size of that result ended
    emergency,          \* the emergency function that has run: "none", "cancel" or "close"
    fetch_raised,       \* whether the client's fetch call raised
    open_orders,        \* what client.fetch_open_orders() returned
    positions,          \* what client.fetch_positions() returned
    client_results,     \* how the client ends the call made for each item, if it is made
    client_calls,       \* the cancel_order / create_order calls made, in order
    count               \* what the emergency function returned

rlVars == <<max_requests, time_window, requests, clock, recorded, ret, slept, returned, pc>>

tpslVars == <<side, last_price, take_profit_price, stop_loss_price, tick_size,
              trigger_by, close_position, called, validation, params, rounded, rerounded>>

emVars == <<emergency, fetch_raised, open_orders, positions, client_results, client_calls, count>>

vars == <<rlVars, tpslVars, emVars>>

----------------------------------------------------------------------------
(* Bounds of the model *)

MaxMaxRequests == 2     \* max_requests ranges over 1..MaxMaxRequests
MinTimeWindow == 2      \* time_window ranges over MinTimeWindow..MaxTimeWindow ticks
MaxTimeWindow == 3
MaxClock == 9           \* the clock stops at MaxClock
MaxRecords == 4         \* at most MaxRecords calls of record_request()
MaxElapsed == 1         \* ticks that may pass between two clock reads of one call
MaxOversleep == 1       \* ticks time.sleep may take beyond the requested duration

MaxPrice == 4           \* prices range over -1..MaxPrice quarters
MaxTick == 3            \* tick sizes range over -MaxTick..MaxTick quarters

MaxItems == 2           \* the client returns at most MaxItems open orders, or positions

(* time.sleep(wait_time + 0.1): the 0.1 s margin is one tick *)
SleepMargin == 1

----------------------------------------------------------------------------
(* RateLimiter *)

Min(s) == CHOOSE x \in {s[i] : i \in DOMAIN s} : \A j \in DOMAIN s : x <= s[j]

(* Prune with the comparison off by one: a timestamp exactly time_window old is kept *)
PruneInclusive(reqs, now) == SelectSeq(reqs, LAMBDA req_time : (now - req_time) <= time_window)

(* Prune with the subtraction reversed: nothing is ever old *)
PruneReversed(reqs, now) == SelectSeq(reqs, LAMBDA req_time : (req_time - now) < time_window)

(* can_make_request, lines 564-567: the timestamps kept at time now *)
Prune(reqs, now) == SelectSeq(reqs, LAMBDA req_time : (now - req_time) < time_window)

(* UnderLimit with the limit one too low *)
UnderLimitLow(reqs) == Len(reqs) < max_requests - 1

(* can_make_request, line 569 *)
UnderLimit(reqs) == Len(reqs) < max_requests

(* wait_if_needed, line 580 *)
WaitTime(reqs, now) == time_window - (now - Min(reqs))

(* SleepDuration with the margin taken off instead of added *)
SleepShort(wait_time) == wait_time - SleepMargin

(* wait_if_needed, line 585 *)
SleepDuration(wait_time) == wait_time + SleepMargin

InitRateLimiter ==
    /\ max_requests \in 1..MaxMaxRequests
    /\ time_window \in MinTimeWindow..MaxTimeWindow
    /\ requests = <<>>
    /\ clock = 0
    /\ recorded = <<>>
    /\ ret = TRUE
    /\ slept = 0
    /\ returned = "none"
    /\ pc = "idle"

(* Time passes between two calls. *)
Tick ==
    /\ clock < MaxClock
    /\ clock' = clock + 1
    /\ returned' = "none"
    /\ UNCHANGED <<max_requests, time_window, requests, recorded, ret, slept, pc>>
    /\ UNCHANGED tpslVars
    /\ UNCHANGED emVars

CanMakeRequest ==
    /\ requests' = Prune(requests, clock)
    /\ ret' = UnderLimit(requests')
    /\ returned' = "can_make_request"
    /\ UNCHANGED <<max_requests, time_window, clock, recorded, slept, pc>>
    /\ UNCHANGED tpslVars
    /\ UNCHANGED emVars

RecordRequest ==
    /\ Len(recorded) < MaxRecords
    /\ requests' = Append(requests, clock)
    /\ recorded' = Append(recorded, clock)
    /\ returned' = "record_request"
    /\ pc' = "idle"
    /\ UNCHANGED <<max_requests, time_window, clock, ret, slept>>
    /\ UNCHANGED tpslVars
    /\ UNCHANGED emVars

(* wait_if_needed: elapsed is the time between the clock read of              *)
(* can_make_request (line 561) and the one of line 580; over is what         *)
(* time.sleep takes beyond the duration it was given.  min() of an empty     *)
(* list (line 579, possible only with max_requests <= 0) raises ValueError.  *)
WaitIfNeeded ==
    /\ pc' = "cleared"
    /\ requests' = Prune(requests, clock)
    /\ UNCHANGED <<max_requests, time_window, recorded, ret>>
    /\ UNCHANGED tpslVars
    /\ UNCHANGED emVars
    /\ IF UnderLimit(requests')
       THEN /\ returned' = "wait_if_needed"
            /\ slept' = 0
            /\ clock' = clock
       ELSE IF requests' = <<>>
       THEN /\ returned' = "wait_if_needed: ValueError"
            /\ slept' = 0
            /\ clock' = clock
       ELSE \E elapsed \in 0..MaxElapsed :
              LET now == clock + elapsed
                  wait_time == WaitTime(requests', now)
              IN  /\ returned' = "wait_if_needed"
                  /\ IF wait_time > 0
                     THEN \E over \in 0..MaxOversleep :
                            /\ slept' = SleepDuration(wait_time)
                            /\ clock' = now + slept' + over
                            /\ clock' <= MaxClock
                     ELSE /\ slept' = 0
                          /\ clock' = now
                          /\ clock' <= MaxClock

----------------------------------------------------------------------------
(* TPSL policy *)

(* An optional price: None, or a float *)
None == [some |-> FALSE, v |-> 0]

Some(x) == [some |-> TRUE, v |-> x]

Sides == {"sell", "buy", "SELL"}

TriggerBys == {"LAST_PRICE", "MARK_PRICE"}

Prices == -1..MaxPrice

OptPrices == {None} \cup {Some(x) : x \in Prices}

TickSizes == -MaxTick..MaxTick

(* Truthy that takes only None for false *)
TruthyNotNone(p) == p.some

(* Python's truth value of an optional price (lines 364, 370, 381, 428-447): *)
(* None and 0.0 are false                                                    *)
Truthy(p) == p.some /\ p.v # 0

(* str.lower() *)
Lower(s) == IF s = "SELL" THEN "sell" ELSE s

(* f"{last_price:.2f}": the price to two decimals, as a number of cents *)
Format2f(q) == q * 25

(* str() of a float *)
Str(q) == [repr |-> q]

Message(text, L) == <<text, Format2f(L)>>

(* how a call ends: with a value, or with an exception *)
Return(x) == [raised |-> FALSE, exc |-> "", value |-> x]

Raise(e, x) == [raised |-> TRUE, exc |-> e, value |-> x]

(* Python's round() of the quotient num / den, den > 0: to the nearest       *)
(* integer, a tie to the even one                                            *)
RoundHalfEven(num, den) ==
    LET q == num \div den
        r == num - q * den
    IN  IF 2 * r < den THEN q
        ELSE IF 2 * r > den THEN q + 1
        ELSE IF q % 2 = 0 THEN q ELSE q + 1

(* round(price / tick_size), tick_size # 0 *)
PyRound(price, tick) ==
    IF tick > 0 THEN RoundHalfEven(price, tick) ELSE RoundHalfEven(-price, -tick)

(* round_to_tick_size without the multiplication by tick_size: the number    *)
(* of ticks, taken for a price                                               *)
RoundUnscaled(price, tick) ==
    IF tick = 0
    THEN Raise("ZeroDivisionError", 0)
    ELSE Return(PyRound(price, tick) * 4)

(* line 339 *)
round_to_tick_size(price, tick) ==
    IF tick = 0
    THEN Raise("ZeroDivisionError", 0)
    ELSE Return(PyRound(price, tick) * tick)

(* ValidateTP that takes a take-profit equal to the last price *)
ValidateTPLoose(is_long, L, tp) ==
    IF ~Truthy(tp) THEN <<>>
    ELSE IF is_long
         THEN IF tp.v < L THEN Message("TP for LONG must be > last price", L) ELSE <<>>
         ELSE IF tp.v > L THEN Message("TP for SHORT must be < last price", L) ELSE <<>>

(* lines 370-378: the message of the violated take-profit rule, <<>> if none *)
ValidateTP(is_long, L, tp) ==
    IF ~Truthy(tp) THEN <<>>
    ELSE IF is_long
         THEN IF tp.v <= L THEN Message("TP for LONG must be > last price", L) ELSE <<>>
         ELSE IF tp.v >= L THEN Message("TP for SHORT must be < last price", L) ELSE <<>>

(* lines 381-389: the message of the violated stop-loss rule, <<>> if none *)
ValidateSL(is_long, L, sl) ==
    IF ~Truthy(sl) THEN <<>>
    ELSE IF is_long
         THEN IF sl.v >= L THEN Message("SL for LONG must be < last price", L) ELSE <<>>
         ELSE IF sl.v <= L THEN Message("SL for SHORT must be > last price", L) ELSE <<>>

(* FirstViolation with the stop-loss checked first *)
StopLossFirst(tp_msg, sl_msg) == IF sl_msg # <<>> THEN sl_msg ELSE tp_msg

(* lines 369-391: the take-profit is validated first, and its failure returns *)
FirstViolation(tp_msg, sl_msg) == IF tp_msg # <<>> THEN tp_msg ELSE sl_msg

(* lines 342-391: the pair (is_valid, error_message); "" is <<>> *)
validate_tpsl_prices(s, L, tp, sl) ==
    IF ~Truthy(tp) /\ ~Truthy(sl)
    THEN <<TRUE, <<>>>>
    ELSE LET is_long == Lower(s) = "sell"
             msg == FirstViolation(ValidateTP(is_long, L, tp), ValidateSL(is_long, L, sl))
         IN  IF msg # <<>> THEN <<FALSE, msg>> ELSE <<TRUE, <<>>>>

(* lines 428-431: a supplied price is replaced by its rounding *)
RoundSupplied(price, tick) ==
    IF Truthy(price)
    THEN LET r == round_to_tick_size(price.v, tick)
         IN  [raised |-> r.raised, price |-> Some(r.value)]
    ELSE [raised |-> FALSE, price |-> price]

(* lines 435-444 and 448-457 *)
TriggerEntry(type, price, tb, cp) ==
    [trigger |-> [trigger_type |-> type,
                  tpsl |-> [trigger_price |-> Str(price),
                            trigger_by |-> tb,
                            close_position |-> cp]]]

EmptyParams == <<>>

(* lines 394-459 *)
create_tpsl_params(s, tp, sl, tb, cp, tick) ==
    LET rtp == RoundSupplied(tp, tick)
        rsl == RoundSupplied(sl, tick)
    IN  IF rtp.raised \/ rsl.raised
        THEN Raise("ZeroDivisionError", EmptyParams)
        ELSE Return(
               (IF Truthy(rtp.price)
                THEN "take_profit" :> TriggerEntry("TAKE_PROFIT", rtp.price.v, tb, cp)
                ELSE EmptyParams)
               @@
               (IF Truthy(rsl.price)
                THEN "stop_loss" :> TriggerEntry("STOP_LOSS", rsl.price.v, tb, cp)
                ELSE EmptyParams))

(* A TPSL request, before any of the functions is applied *)
InitTpslRequest ==
    /\ side \in Sides
    /\ last_price \in 1..MaxPrice
    /\ take_profit_price \in OptPrices
    /\ stop_loss_price \in OptPrices
    /\ tick_size \in TickSizes
    /\ trigger_by = "LAST_PRICE"
    /\ close_position = TRUE
    /\ called = {}
    /\ validation = <<>>
    /\ params = Return(EmptyParams)
    /\ rounded = [price |-> 0, result |-> Return(0)]
    /\ rerounded = Return(0)

ValidateTpslPrices ==
    /\ "validate" \notin called
    /\ called' = called \cup {"validate"}
    /\ validation' = validate_tpsl_prices(side, last_price, take_profit_price, stop_loss_price)
    /\ UNCHANGED <<side, last_price, take_profit_price, stop_loss_price, tick_size,
                   trigger_by, close_position, params, rounded, rerounded>>
    /\ UNCHANGED rlVars
    /\ UNCHANGED emVars

CreateTpslParams ==
    /\ "create" \notin called
    /\ called' = called \cup {"create"}
    /\ \E tb \in TriggerBys, cp \in BOOLEAN :
         /\ trigger_by' = tb
         /\ close_position' = cp
         /\ params' = create_tpsl_params(side, take_profit_price, stop_loss_price, tb, cp, tick_size)
    /\ UNCHANGED <<side, last_price, take_profit_price, stop_loss_price, tick_size,
                   validation, rounded, rerounded>>
    /\ UNCHANGED rlVars
    /\ UNCHANGED emVars

RoundToTickSize ==
    /\ "round" \notin called
    /\ called' = called \cup {"round"}
    /\ \E price \in Prices :
         rounded' = [price |-> price, result |-> round_to_tick_size(price, tick_size)]
    /\ UNCHANGED <<side, last_price, take_profit_price, stop_loss_price, tick_size,
                   trigger_by, close_position, validation, params, rerounded>>
    /\ UNCHANGED rlVars
    /\ UNCHANGED emVars

(* round_to_tick_size applied to the price it returned *)
RoundAgain ==
    /\ "round" \in called
    /\ "round_again" \notin called
    /\ ~rounded.result.raised
    /\ called' = called \cup {"round_again"}
    /\ rerounded' = round_to_tick_size(rounded.result.value, tick_size)
    /\ UNCHANGED <<side, last_price, take_profit_price, stop_loss_price, tick_size,
                   trigger_by, close_position, validation, params, rounded>>
    /\ UNCHANGED rlVars
    /\ UNCHANGED emVars

(* The TPSL variables while only the RateLimiter runs *)
IdleTpsl ==
    /\ side = "sell"
    /\ last_price = 1
    /\ take_profit_price = None
    /\ stop_loss_price = None
    /\ tick_size = 1
    /\ trigger_by = "LAST_PRICE"
    /\ close_position = TRUE
    /\ called = {}
    /\ validation = <<>>
    /\ params = Return(EmptyParams)
    /\ rounded = [price |-> 0, result |-> Return(0)]
    /\ rerounded = Return(0)

(* The RateLimiter while only the TPSL functions run *)
IdleRateLimiter ==
    /\ max_requests = 1
    /\ time_window = MinTimeWindow
    /\ requests = <<>>
    /\ clock = 0
    /\ recorded = <<>>
    /\ ret = TRUE
    /\ slept = 0
    /\ returned = "none"
    /\ pc = "idle"

----------------------------------------------------------------------------
(* Emergency functions (the definitions of lines 678 and 743, which replace  *)
(* those of lines 467 and 497 when the module is loaded)                     *)

(* A dictionary key that is missing, and Python's None *)
Absent == "<absent>"

PyNone == "<None>"

(* dict.get(key, default) of a field *)
DictGet(field, default) == IF field = Absent THEN default ELSE field

(* "not x" of an identifier *)
Falsy(x) == x \in {PyNone, ""}

(* How a call of the client ends: with one of these values, or by raising *)
CancelResults == {"True", "False", "None", "{}", "{...}", "raise"}

CreateResults == {"{...}", "None", "{}", "raise"}

(* An open order, by the fields emergency_cancel_all decides on: it has one  *)
(* identifier field, order_id or id, possibly empty, or none.  Its other     *)
(* fields (side and symbol, or legs) are only printed, lines 708-719.        *)
OrderKinds ==
    {[order_id |-> oid, id |-> i] : oid \in {Absent, "", "a"}, i \in {Absent, "", "b"}}

Orders == {o \in OrderKinds : o.order_id = Absent \/ o.id = Absent}

(* A size, as the client gives it: a number, or a text that is no number *)
Num(x) == [num |-> TRUE, v |-> x]

NotANumber == [num |-> FALSE, v |-> 0]

(* A position: its size, and the size of its first leg if it has legs *)
Positions ==
    { [size |-> sz, legs |-> l] :
        sz \in {Num(-1), Num(0), Num(1), NotANumber}, l \in {"flat", "legs"} }

SeqsUpTo(S, n) == UNION {[1..k -> S] : k \in 0..n}

(* The names bound at module level when a function of the module runs: its   *)
(* top-level def and class statements.  safe_float and safe_get_float are    *)
(* local to create_positions_table and create_account_table.                 *)
ModuleNames ==
    {"load_grvt_config", "validate_config", "connect_to_grvt", "create_eip712_domain",
     "sign_order_eip712", "format_currency", "format_percentage", "create_account_table",
     "create_positions_table", "round_to_tick_size", "validate_tpsl_prices",
     "create_tpsl_params", "emergency_cancel_all", "emergency_close_all", "RateLimiter",
     "print_section_header", "check_pysdk_availability", "get_account_public_address",
     "run_preflight_checks"}

(* lines 297-301 *)
safe_float(value) == IF value.num THEN value.v ELSE 0

IdleEmergency ==
    /\ emergency = "none"
    /\ fetch_raised = FALSE
    /\ open_orders = <<>>
    /\ positions = <<>>
    /\ client_results = <<>>
    /\ client_calls = <<>>
    /\ count = 0

(* The items of a list with their place in it *)
Indexed(list) == [i \in DOMAIN list |-> [index |-> i, item |-> list[i]]]

Abs(x) == IF x < 0 THEN -x ELSE x

(* lines 792-801: the create_order call for the position at place i; the     *)
(* place stands for the position's symbol                                    *)
CloseOrder(i, size) ==
    [item |-> i, order_type |-> "market", side |-> IF size > 0 THEN "sell" ELSE "buy",
     amount |-> Abs(size), reduce_only |-> TRUE]

(* lines 803-807, and the except of lines 809-811 *)
CreateFailed(result) == result \in {"None", "{}", "raise"}

(* lines 766-811: the loop over the active positions; acc is the calls made  *)
(* and the count so far.  The size is that of the first leg if the position  *)
(* has legs, which is the position's own size in the positions drawn.        *)
RECURSIVE CloseLoop(_, _, _)
CloseLoop(active, results, acc) ==
    IF active = <<>>
    THEN acc
    ELSE LET pos == Head(active)
             size == safe_float(pos.item.size)
             next ==
                 IF size = 0
                 THEN acc
                 ELSE [calls |-> Append(acc.calls, CloseOrder(pos.index, size)),
                       count |-> IF CreateFailed(results[pos.index])
                                 THEN acc.count ELSE acc.count + 1]
         IN  CloseLoop(Tail(active), results, next)

(* lines 743-819.  safe_float is no name of the module: the filter of line   *)
(* 758 raises NameError on the first position, and the except of line 815    *)
(* returns 0.                                                                *)
emergency_close_all(raised, fetched, results) ==
    IF raised
    THEN [calls |-> <<>>, count |-> 0]
    ELSE IF fetched # <<>> /\ "safe_float" \notin ModuleNames
    THEN [calls |-> <<>>, count |-> 0]
    ELSE LET active_positions ==
                 SelectSeq(Indexed(fetched), LAMBDA p : safe_float(p.item.size) # 0)
         IN  IF active_positions = <<>>
             THEN [calls |-> <<>>, count |-> 0]
             ELSE CloseLoop(active_positions, results, [calls |-> <<>>, count |-> 0])

EmergencyCloseAll ==
    /\ emergency = "none"
    /\ emergency' = "close"
    /\ \E raised \in BOOLEAN, fetched \in SeqsUpTo(Positions, MaxItems) :
         \E results \in [DOMAIN fetched -> CreateResults] :
            /\ raised => fetched = <<>>
            /\ fetch_raised' = raised
            /\ positions' = fetched
            /\ client_results' = results
            /\ LET out == emergency_close_all(raised, fetched, results)
               IN  /\ client_calls' = out.calls
                   /\ count' = out.count
    /\ UNCHANGED open_orders
    /\ UNCHANGED rlVars
    /\ UNCHANGED <<side, last_price, take_profit_price, stop_loss_price, tick_size,
                   trigger_by, close_position, called, validation, params, rounded, rerounded>>

(* OrderId without the fall back to the id field *)
OrderIdNoFallback(order) == DictGet(order.order_id, PyNone)

(* line 701: order.get('order_id', order.get('id')) *)
OrderId(order) == DictGet(order.order_id, DictGet(order.id, PyNone))

(* line 724 *)
CancelFailed(result) == result \in {"False", "None", "{}"}

(* lines 698-732: the loop over the open orders; acc is the calls made and   *)
(* the count so far                                                          *)
RECURSIVE CancelLoop(_, _, _)
CancelLoop(orders, results, acc) ==
    IF orders = <<>>
    THEN acc
    ELSE LET order == Head(orders)
             order_id == OrderId(order.item)
             result == results[order.index]
             next ==
                 IF Falsy(order_id)
                 THEN acc
                 ELSE [calls |-> Append(acc.calls, [item |-> order.index, order_id |-> order_id]),
                       count |-> IF result = "raise" \/ CancelFailed(result)
                                 THEN acc.count ELSE acc.count + 1]
         IN  CancelLoop(Tail(orders), results, next)

(* lines 678-740 *)
emergency_cancel_all(raised, fetched, results) ==
    IF raised
    THEN [calls |-> <<>>, count |-> 0]
    ELSE IF fetched = <<>>
    THEN [calls |-> <<>>, count |-> 0]
    ELSE CancelLoop(Indexed(fetched), results, [calls |-> <<>>, count |-> 0])

EmergencyCancelAll ==
    /\ emergency = "none"
    /\ emergency' = "cancel"
    /\ \E raised \in BOOLEAN, fetched \in SeqsUpTo(Orders, MaxItems) :
         \E results \in [DOMAIN fetched -> CancelResults] :
            /\ raised => fetched = <<>>
            /\ fetch_raised' = raised
            /\ open_orders' = fetched
            /\ client_results' = results
            /\ LET out == emergency_cancel_all(raised, fetched, results)
               IN  /\ client_calls' = out.calls
                   /\ count' = out.count
    /\ UNCHANGED positions
    /\ UNCHANGED rlVars
    /\ UNCHANGED <<side, last_price, take_profit_price, stop_loss_price, tick_size,
                   trigger_by, close_position, called, validation, params, rounded, rerounded>>

----------------------------------------------------------------------------
(* Specifications *)

Init == InitRateLimiter /\ IdleTpsl /\ IdleEmergency

(* Any caller: the three methods in any order. *)
Next == Tick \/ CanMakeRequest \/ RecordRequest \/ WaitIfNeeded

Spec == Init /\ [][Next]_vars

(* The caller of the protocol: for every request, wait_if_needed() and then  *)
(* record_request(), once.                                                   *)
CallerWait == pc = "idle" /\ WaitIfNeeded

CallerRecord == pc = "cleared" /\ RecordRequest

NextCaller == Tick \/ CanMakeRequest \/ CallerWait \/ CallerRecord

SpecCaller == Init /\ [][NextCaller]_vars

(* The TPSL functions applied to one request. *)
InitTpsl == IdleRateLimiter /\ InitTpslRequest /\ IdleEmergency

NextTpsl == ValidateTpslPrices \/ CreateTpslParams \/ RoundToTickSize \/ RoundAgain

SpecTpsl == InitTpsl /\ [][NextTpsl]_vars

(* One emergency function, run once against a client. *)
InitEmergency == IdleRateLimiter /\ IdleTpsl /\ IdleEmergency

NextEmergency == EmergencyCancelAll \/ EmergencyCloseAll

SpecEmergency == InitEmergency /\ [][NextEmergency]_vars

----------------------------------------------------------------------------
(* Claims about the RateLimiter *)

(* the recorded requests whose timestamp lies in the window of length       *)
(* time_window that starts at t                                             *)
InWindowFrom(t) == {i \in DOMAIN recorded : t <= recorded[i] /\ recorded[i] < t + time_window}

(* the recorded requests that are within time_window of now *)
InWindow(now) == {i \in DOMAIN recorded : (now - recorded[i]) < time_window}

(* the recorded requests whose timestamp lies in the closed interval of       *)
(* length time_window that starts at t                                       *)
InClosedWindowFrom(t) ==
    {i \in DOMAIN recorded : t <= recorded[i] /\ recorded[i] <= t + time_window}

(* C1, as claimed: for the caller of the protocol (wait_if_needed(), then    *)
(* record_request(), for every request), no interval of length time_window,  *)
(* a closed one [t, t + time_window] included, holds more than max_requests  *)
(* recorded timestamps.                                                      *)
C1_NoIntervalOverLimit ==
    \A t \in 0..MaxClock : Cardinality(InClosedWindowFrom(t)) <= max_requests

(* C1, amended: for the caller of the protocol, no half-open interval        *)
(* [t, t + time_window) holds more than max_requests recorded timestamps     *)
(* (two requests may be exactly time_window apart: line 566 drops a          *)
(* timestamp that is exactly time_window old).                               *)
C1_RateBounded ==
    \A t \in 0..MaxClock : Cardinality(InWindowFrom(t)) <= max_requests

(* the caller has slept in wait_if_needed() and recorded its request after  *)
(* more than max_requests requests in all                                   *)
C1_Witness ==
    /\ returned = "record_request"
    /\ slept > 0
    /\ Len(recorded) > max_requests
    /\ Cardinality(InWindow(clock)) = max_requests

C3_BlocksAndRecovers ==
    returned = "can_make_request" =>
        /\ (Cardinality(InWindow(clock)) >= max_requests => ret = FALSE)
        /\ ((\A i \in DOMAIN recorded : clock - recorded[i] > time_window) => ret = TRUE)

(* max_requests requests were recorded within one window, the clock went    *)
(* past time_window after the last of them, and can_make_request() returned *)
(* true                                                                     *)
C3_Witness ==
    /\ returned = "can_make_request"
    /\ ret = TRUE
    /\ Len(recorded) >= max_requests
    /\ recorded[Len(recorded)] - recorded[Len(recorded) - max_requests + 1] < time_window
    /\ clock - recorded[Len(recorded)] > time_window

(* C4: a wait_if_needed() called while fewer than max_requests recorded     *)
(* requests are within time_window of now does not sleep, takes no time     *)
(* and appends nothing to requests.                                         *)
C4_NoSleepUnderLimit ==
    [][(returned' = "wait_if_needed" /\ Cardinality(InWindow(clock)) < max_requests) =>
         /\ slept' = 0
         /\ clock' = clock
         /\ recorded' = recorded
         /\ Len(requests') <= Len(requests)
         /\ \A i \in DOMAIN requests' : \E j \in DOMAIN requests : requests'[i] = requests[j]]_vars

(* wait_if_needed() has returned without sleeping, right after a request    *)
(* was recorded and with the limiter still under its limit                  *)
C4_Witness ==
    /\ returned = "wait_if_needed"
    /\ slept = 0
    /\ recorded # <<>>
    /\ recorded[Len(recorded)] = clock
    /\ Cardinality(InWindow(clock)) < max_requests

----------------------------------------------------------------------------
(* Claims about the TPSL policy *)

(* a price that is absent, or supplied and not zero *)
NonZeroIfSupplied(p) == ~p.some \/ p.v # 0

(* the directional rule, for every supplied price *)
DirectionRule(s, L, tp, sl) ==
    /\ s = "sell" => (tp.some => tp.v > L) /\ (sl.some => sl.v < L)
    /\ s = "buy" => (tp.some => tp.v < L) /\ (sl.some => sl.v > L)

(* a zero price replaced by None *)
NoneIfZero(p) == IF p.some /\ p.v = 0 THEN None ELSE p

(* the entries a request asks for *)
RequestedKeys(tp, sl) ==
    (IF tp.some /\ tp.v # 0 THEN {"take_profit"} ELSE {})
        \cup (IF sl.some /\ sl.v # 0 THEN {"stop_loss"} ELSE {})

(* C5: with last_price > 0 and no supplied price zero,                      *)
(* validate_tpsl_prices(side, ...) for side 'sell' or 'buy' returns         *)
(* (True, "") exactly when every supplied price obeys the directional rule, *)
(* with strict inequalities.                                                *)
C5_DirectionalRule ==
    ( /\ "validate" \in called
      /\ side \in {"sell", "buy"}
      /\ last_price > 0
      /\ NonZeroIfSupplied(take_profit_price)
      /\ NonZeroIfSupplied(stop_loss_price) )
    => ( validation = <<TRUE, <<>>>>
           <=> DirectionRule(side, last_price, take_profit_price, stop_loss_price) )

(* a 'sell' request whose take-profit equals the last price, with a good    *)
(* stop-loss, was rejected                                                  *)
C5_Witness ==
    /\ "validate" \in called
    /\ side = "sell"
    /\ take_profit_price = Some(last_price)
    /\ stop_loss_price.some /\ stop_loss_price.v # 0 /\ stop_loss_price.v < last_price
    /\ validation[1] = FALSE

(* C6: validate_tpsl_prices returns a pair, (True, "") or (False, message)  *)
(* with a message; when the take-profit price violates its rule the message *)
(* is the take-profit one, whatever the stop-loss price is.                 *)
C6_TakeProfitFirst ==
    "validate" \in called =>
        LET is_long == side \in {"sell", "SELL"}
            tp == take_profit_price
            tp_violated == tp.some /\ tp.v # 0
                             /\ (IF is_long THEN tp.v <= last_price ELSE tp.v >= last_price)
        IN  /\ Len(validation) = 2
            /\ validation[1] \in BOOLEAN
            /\ (validation[1] <=> validation[2] = <<>>)
            /\ tp_violated =>
                 validation = <<FALSE,
                                <<IF is_long THEN "TP for LONG must be > last price"
                                             ELSE "TP for SHORT must be < last price",
                                  Format2f(last_price)>> >>

(* a 'buy' request whose take-profit and stop-loss both violate their rule  *)
(* was rejected with the take-profit message                                *)
C6_Witness ==
    /\ "validate" \in called
    /\ side = "buy"
    /\ take_profit_price.some /\ take_profit_price.v > last_price
    /\ stop_loss_price.some /\ stop_loss_price.v # 0 /\ stop_loss_price.v < last_price
    /\ validation[1] = FALSE
    /\ validation[2][1] = "TP for SHORT must be < last price"

(* C7: with a positive tick_size, create_tpsl_params returns a mapping      *)
(* whose keys are exactly the entries requested: take_profit iff            *)
(* take_profit_price is supplied and not zero, stop_loss iff                *)
(* stop_loss_price is.                                                      *)
C7_KeysAsRequested ==
    ("create" \in called /\ tick_size > 0) =>
        /\ ~params.raised
        /\ DOMAIN params.value = RequestedKeys(take_profit_price, stop_loss_price)

(* C8: a zero price is an absent price: validate_tpsl_prices and            *)
(* create_tpsl_params end as they do with None in place of the zero;        *)
(* validation succeeds with both prices zero; create_tpsl_params makes no   *)
(* entry for a zero price.                                                  *)
C8_ZeroIsAbsent ==
    LET tp == take_profit_price
        sl == stop_loss_price
    IN  /\ "validate" \in called =>
             /\ validation = validate_tpsl_prices(side, last_price, NoneIfZero(tp), NoneIfZero(sl))
             /\ (tp = Some(0) /\ sl = Some(0)) => validation = <<TRUE, <<>>>>
        /\ "create" \in called =>
             /\ params = create_tpsl_params(side, NoneIfZero(tp), NoneIfZero(sl),
                                            trigger_by, close_position, tick_size)
             /\ tp = Some(0) => "take_profit" \notin DOMAIN params.value
             /\ sl = Some(0) => "stop_loss" \notin DOMAIN params.value

(* a request with a zero take-profit and a good stop-loss was validated and *)
(* built: it passed, and only the stop_loss entry was made                  *)
C8_Witness ==
    /\ {"validate", "create"} \subseteq called
    /\ take_profit_price = Some(0)
    /\ stop_loss_price.some /\ stop_loss_price.v # 0
    /\ validation = <<TRUE, <<>>>>
    /\ ~params.raised
    /\ DOMAIN params.value = {"stop_loss"}

(* C9: for a positive price and a positive tick size, round_to_tick_size    *)
(* returns a multiple of the tick size, and round_to_tick_size of that      *)
(* result returns it again.                                                 *)
C9_RoundIdempotent ==
    (rounded.price > 0 /\ tick_size > 0) =>
        /\ "round" \in called =>
             /\ ~rounded.result.raised
             /\ rounded.result.value % tick_size = 0
        /\ "round_again" \in called => rerounded = rounded.result

(* a price that is no multiple of the tick size was rounded to another      *)
(* price, and that one rounded again                                        *)
C9_Witness ==
    /\ "round_again" \in called
    /\ rounded.price > 0
    /\ tick_size > 1
    /\ rounded.result.value # rounded.price
    /\ rounded.result.value > 0

(* C10: with tick_size <= 0, round_to_tick_size ends in an error for every  *)
(* price, and so does create_tpsl_params when a non-zero price is supplied. *)
C10_BadTickFails ==
    tick_size <= 0 =>
        /\ "round" \in called => rounded.result.raised
        /\ ( /\ "create" \in called
             /\ (Truthy(take_profit_price) \/ Truthy(stop_loss_price)) )
           => params.raised

----------------------------------------------------------------------------
(* Claims about the emergency functions *)

(* the place of i among the members of S *)
Rank(i, S) == Cardinality({j \in S : j <= i})

(* the positions with a size that is a number other than zero *)
NonZeroPositions ==
    {i \in DOMAIN positions : positions[i].size.num /\ positions[i].size.v # 0}

(* C11: when fetch_positions() succeeds, emergency_close_all calls          *)
(* create_order once for every position of non-zero size, with a            *)
(* reduce-only market order on the opposite side and amount |size|,         *)
(* whatever happens to the other positions, and returns the number of       *)
(* positions whose create_order returned a non-empty result; when the       *)
(* fetch fails it calls nothing and returns 0.                              *)
C11_ClosesEveryPosition ==
    emergency = "close" =>
        IF fetch_raised
        THEN client_calls = <<>> /\ count = 0
        ELSE /\ Len(client_calls) = Cardinality(NonZeroPositions)
             /\ \A i \in NonZeroPositions :
                    client_calls[Rank(i, NonZeroPositions)] =
                        [item |-> i, order_type |-> "market",
                         side |-> IF positions[i].size.v > 0 THEN "sell" ELSE "buy",
                         amount |-> IF positions[i].size.v > 0 THEN positions[i].size.v
                                    ELSE -positions[i].size.v,
                         reduce_only |-> TRUE]
             /\ count = Cardinality({i \in NonZeroPositions :
                                        client_results[i] \notin {"None", "{}", "raise"}})

(* an order has an identifier: a non-empty order_id or id *)
HasIdentifier(o) == o.order_id \notin {Absent, ""} \/ o.id \notin {Absent, ""}

Identifier(o) == IF o.order_id \notin {Absent, ""} THEN o.order_id ELSE o.id

IdentifiedOrders == {i \in DOMAIN open_orders : HasIdentifier(open_orders[i])}

----------------------------------------------------------------------------
(* Claims about validation with construction, and about waiting *)

(* the trigger price of an entry of the result of create_tpsl_params *)
TriggerPrice(key) == params.value[key].trigger.tpsl.trigger_price.repr

(* C13: for last_price > 0, a positive tick_size and supplied prices that   *)
(* are not zero, when validate_tpsl_prices succeeds the tick-rounded        *)
(* trigger prices in the result of create_tpsl_params obey the directional  *)
(* rules against last_price: for 'sell' take-profit > last_price and        *)
(* stop-loss < last_price, for 'buy' the reverse.                           *)
C13_ValidAfterRounding ==
    ( /\ {"validate", "create"} \subseteq called
      /\ side \in {"sell", "buy"}
      /\ last_price > 0
      /\ tick_size > 0
      /\ NonZeroIfSupplied(take_profit_price)
      /\ NonZeroIfSupplied(stop_loss_price)
      /\ validation = <<TRUE, <<>>>>
      /\ ~params.raised )
    => /\ "take_profit" \in DOMAIN params.value =>
            IF side = "sell" THEN TriggerPrice("take_profit") > last_price
                             ELSE TriggerPrice("take_profit") < last_price
       /\ "stop_loss" \in DOMAIN params.value =>
            IF side = "sell" THEN TriggerPrice("stop_loss") < last_price
                             ELSE TriggerPrice("stop_loss") > last_price

(* the caller never recorded more than max_requests requests within one     *)
(* time_window                                                              *)
NeverOverRecorded ==
    \A t \in 0..MaxClock : Cardinality(InWindowFrom(t)) <= max_requests

(* C14, as claimed: a can_make_request() evaluated right after              *)
(* wait_if_needed() returned returns True, whatever the caller recorded.    *)
C14_ClearAfterWait ==
    [][(returned = "wait_if_needed" /\ returned' = "can_make_request") => ret' = TRUE]_vars

(* C14, amended: a can_make_request() evaluated right after                 *)
(* wait_if_needed() returned returns True, provided the caller has not      *)
(* recorded more than max_requests requests within one time_window          *)
(* (wait_if_needed waits for the oldest stored timestamp only).             *)
C14_ClearAfterWaitIfBounded ==
    [][(returned = "wait_if_needed" /\ returned' = "can_make_request" /\ NeverOverRecorded)
          => ret' = TRUE]_vars

(* wait_if_needed() has just returned from a sleep, for a caller at its     *)
(* limit that never went over it                                            *)
C14_Witness ==
    /\ returned = "wait_if_needed"
    /\ slept > 0
    /\ Len(recorded) >= max_requests
    /\ NeverOverRecorded
    /\ Cardinality(InWindow(clock)) = max_requests - 1

====
